---- MODULE Spec2Model ----
(***************************************************************************)
(* Model of smriti_swot_analysis.py: the "Generate SWOT" handler of the    *)
(* Streamlit script, the text cleaner clean_swot_text and the line         *)
(* classifier extract_swot_key_points.                                     *)
(*                                                                         *)
(* A Python str is modelled as a sequence of one-character strings, so     *)
(* that substring search, splitting, replacing and stripping are computed  *)
(* character by character as the Python built-ins compute them.            *)
(***************************************************************************)
EXTENDS Naturals, Sequences, FiniteSets

VARIABLES
    pc,               \* position of the script run
    company_details,  \* text of the input box (line 97)
    analysis_result,  \* value returned by analyze_swot (line 104)
    swot_text,        \* value returned by clean_swot_text (line 107)
    displayed,        \* text handed to st.markdown (line 111)
    lines,            \* swot_text.split("\n") (line 71)
    idx,              \* 1-based index of the next line of the for loop (line 75)
    category,         \* which list the name "category" is bound to (line 74)
    strengths, weaknesses, opportunities, threats,  \* the four lists (line 72)
    key_points,       \* the tuple returned at line 89, by bucket name
    rendered,         \* what the 2x2 grid writes per bucket (lines 120-152)
    error,            \* exception that aborted the script run, if any
    requests,         \* inputs of the trigger actions so far, in order
    service_log       \* contexts the text-generation service was invoked with

vars == <<pc, company_details, analysis_result, swot_text, displayed, lines, idx,
          category, strengths, weaknesses, opportunities, threats, key_points,
          rendered, error, requests, service_log>>

-----------------------------------------------------------------------------
(* Bounds of the model *)

\* longest response assembled line by line from LineSet
MaxLines == 2
\* most bullet lines under one header in the generated bullet runs
MaxBullets == 4
\* most "Generate SWOT" clicks in one behaviour
MaxClicks == 2

-----------------------------------------------------------------------------
(* String constants of the program *)

LF == "\n"
BS == "\\"
StrengthsKw == <<"S","t","r","e","n","g","t","h","s">>
WeaknessesKw == <<"W","e","a","k","n","e","s","s","e","s">>
OpportunitiesKw == <<"O","p","p","o","r","t","u","n","i","t","i","e","s">>
ThreatsKw == <<"T","h","r","e","a","t","s">>
MetadataMarker == <<"a","d","d","i","t","i","o","n","a","l","_","k","w","a","r","g","s">>
EscapedNewline == <<BS, "n">>
BulletMarker == <<"*">>
ContentKey == <<"c","o","n","t","e","n","t">>
\* number of key points kept per category
TopN == 3

-----------------------------------------------------------------------------
(* Python str built-ins, on sequences of characters *)

\* s[i:i+len(sub)] == sub
MatchAt(s, sub, i) ==
    /\ i + Len(sub) - 1 <= Len(s)
    /\ \A k \in 1..Len(sub) : s[i + k - 1] = sub[k]

\* s.find(sub, i), 1-based, 0 when absent: the lowest index at or after i
\* where sub occurs
py_find(s, sub, i) ==
    LET found == { j \in i..Len(s) : MatchAt(s, sub, j) }
    IN  IF found = {} THEN 0 ELSE CHOOSE j \in found : \A k \in found : j <= k

\* sub in s
py_in(sub, s) == py_find(s, sub, 1) # 0

\* s.startswith(prefix)
py_startswith(s, prefix) == MatchAt(s, prefix, 1)

\* s.split(sep)[0]
py_split_first(s, sep) ==
    LET i == py_find(s, sep, 1)
    IN  IF i = 0 THEN s ELSE SubSeq(s, 1, i - 1)

\* s.split(sep), the list of all pieces
RECURSIVE py_split(_, _)
py_split(s, sep) ==
    LET i == py_find(s, sep, 1)
    IN  IF i = 0 THEN <<s>>
        ELSE <<SubSeq(s, 1, i - 1)>> \o py_split(SubSeq(s, i + Len(sep), Len(s)), sep)

\* s.replace(old, new) for a non-empty old: find the next occurrence, copy
\* what precedes it, write new, go on after the occurrence
RECURSIVE py_replace(_, _, _)
py_replace(s, old, new) ==
    LET i == py_find(s, old, 1)
    IN  IF i = 0 THEN s
        ELSE SubSeq(s, 1, i - 1) \o new
             \o py_replace(SubSeq(s, i + Len(old), Len(s)), old, new)

Whitespace == {" ", "\n", "\t", "\r", "\f"}

\* s.strip(): from the first to the last character that is not whitespace
py_strip(s) ==
    IF \A i \in 1..Len(s) : s[i] \in Whitespace THEN <<>>
    ELSE SubSeq(s,
                CHOOSE i \in 1..Len(s) :
                    s[i] \notin Whitespace /\ \A k \in 1..(i - 1) : s[k] \in Whitespace,
                CHOOSE i \in 1..Len(s) :
                    s[i] \notin Whitespace /\ \A k \in (i + 1)..Len(s) : s[k] \in Whitespace)

\* s[:n]
py_take(s, n) == SubSeq(s, 1, IF Len(s) < n THEN Len(s) ELSE n)

\* one character of repr(str) written with quote character q
repr_char(c, q) ==
    IF c = BS THEN <<BS, BS>>
    ELSE IF c = LF THEN <<BS, "n">>
    ELSE IF c = "\t" THEN <<BS, "t">>
    ELSE IF c = "\r" THEN <<BS, "r">>
    ELSE IF c = q THEN <<BS, q>>
    ELSE <<c>>

\* the escaped characters of s[lo..hi], concatenated
RECURSIVE repr_range(_, _, _, _)
repr_range(s, q, lo, hi) ==
    IF lo > hi THEN <<>>
    ELSE IF lo = hi THEN repr_char(s[lo], q)
    ELSE LET mid == (lo + hi) \div 2
         IN  repr_range(s, q, lo, mid) \o repr_range(s, q, mid + 1, hi)

repr_body(s, q) == repr_range(s, q, 1, Len(s))

\* repr(s) of a str: single quotes unless s holds ' and no "
py_repr(s) ==
    LET q == IF py_in(<<"'">>, s) /\ ~py_in(<<"\"">>, s) THEN "\"" ELSE "'"
    IN  <<q>> \o repr_body(s, q) \o <<q>>

-----------------------------------------------------------------------------
(* Raw responses of the text-generation collaborator *)

\* A response is a plain str, a dict with one key, or a message object with a
\* content attribute (what the prompt | model chain of line 44 returns).
Response(kind, key, text) == [kind |-> kind, key |-> key, text |-> text]

\* analysis_result = "" (line 100)
EmptyStr == Response("str", <<>>, <<>>)

\* str(raw_response) (lines 59 and 156)
py_str(raw) ==
    IF raw.kind = "str" THEN raw.text
    ELSE IF raw.kind = "dict"
         THEN <<"{">> \o py_repr(raw.key) \o <<":", " ">> \o py_repr(raw.text) \o <<"}">>
         ELSE <<"c","o","n","t","e","n","t","=">> \o py_repr(raw.text)
              \o <<" ">> \o MetadataMarker \o <<"=","{","}">>
              \o <<" ","r","e","s","p","o","n","s","e","_","m","e","t","a","d","a","t","a","=","{","}">>

-----------------------------------------------------------------------------
(* clean_swot_text *)

\* lines 56-59: the text the cleaning starts from
select_text(raw) ==
    IF raw.kind = "dict" /\ raw.key = ContentKey THEN raw.text ELSE py_str(raw)

\* s.rsplit(sep, 1)[0]: what precedes the last occurrence of sep
py_rsplit_first(s, sep) ==
    LET found == { j \in 1..Len(s) : MatchAt(s, sep, j) }
    IN  IF found = {} THEN s
        ELSE SubSeq(s, 1, (CHOOSE j \in found : \A k \in found : j >= k) - 1)

\* a bug: the text cut at the last occurrence of the marker
clean_str_cut_at_last(t) ==
    py_strip(py_replace(py_rsplit_first(t, MetadataMarker), EscapedNewline, <<LF>>))

\* a bug: the whitespace trimmed before the line breaks are restored
clean_str_strip_first(t) ==
    py_replace(py_strip(py_split_first(t, MetadataMarker)), EscapedNewline, <<LF>>)

\* lines 62-64 on a str
clean_str(t) ==
    py_strip(py_replace(py_split_first(t, MetadataMarker), EscapedNewline, <<LF>>))

clean_swot_text(raw) == clean_str(select_text(raw))

-----------------------------------------------------------------------------
(* extract_swot_key_points: the body of the for loop *)

Buckets == <<"strengths", "weaknesses", "opportunities", "threats">>

\* a bug: the chain tested in the opposite order
header_of_reversed(line) ==
    IF py_in(ThreatsKw, line) THEN "threats"
    ELSE IF py_in(OpportunitiesKw, line) THEN "opportunities"
    ELSE IF py_in(WeaknessesKw, line) THEN "weaknesses"
    ELSE IF py_in(StrengthsKw, line) THEN "strengths"
    ELSE "None"

\* the if/elif chain of lines 77-84: the list a line rebinds category to,
\* "None" when the line holds no keyword
header_of(line) ==
    IF py_in(StrengthsKw, line) THEN "strengths"
    ELSE IF py_in(WeaknessesKw, line) THEN "weaknesses"
    ELSE IF py_in(OpportunitiesKw, line) THEN "opportunities"
    ELSE IF py_in(ThreatsKw, line) THEN "threats"
    ELSE "None"

\* a bug: "-" taken for a bullet marker too
is_bullet_or_dash(line) ==
    py_startswith(line, BulletMarker) \/ py_startswith(line, <<"-">>)

\* line 85
is_bullet(line) == py_startswith(line, BulletMarker)

\* a bug: line[1:] without the strip
key_point_unstripped(line) == SubSeq(line, 2, Len(line))

\* line 86: line[1:].strip()
key_point(line) == py_strip(SubSeq(line, 2, Len(line)))

\* a bug: the slice one entry too long
top3_off_by_one(list) == py_take(list, TopN + 1)

\* line 89: one slice [:3]
top3(list) == py_take(list, TopN)

\* the locals of the function while the loop runs; failed records that
\* line 86 raised
LoopState(c, s, w, o, t, f) ==
    [category |-> c, strengths |-> s, weaknesses |-> w, opportunities |-> o,
     threats |-> t, failed |-> f]

\* lines 72 and 74
LoopStart == LoopState("None", <<>>, <<>>, <<>>, <<>>, FALSE)

\* a bug: the item filed into the current list and into strengths
list_append_twice(st, item) ==
    IF st.category = "None" THEN [st EXCEPT !.failed = TRUE]
    ELSE [st EXCEPT ![st.category] = Append(@, item),
                    !.strengths = IF st.category = "strengths" THEN @
                                  ELSE Append(@, item)]

\* line 86: category.append(item); category is bound to one of the four
\* lists, or to None, which has no append (AttributeError)
list_append(st, item) ==
    IF st.category = "None" THEN [st EXCEPT !.failed = TRUE]
    ELSE [st EXCEPT ![st.category] = Append(@, item)]

\* lines 76-86: one iteration of the for loop
loop_body(st, raw_line) ==
    LET line == py_strip(raw_line)
    IN  IF header_of(line) # "None" THEN [st EXCEPT !.category = header_of(line)]
        ELSE IF is_bullet(line) THEN list_append(st, key_point(line))
        ELSE st

\* lines 75-86: the loop over the lines from the k-th on; an exception ends it
RECURSIVE run_loop(_, _, _)
run_loop(st, ls, k) ==
    IF k > Len(ls) \/ st.failed THEN st
    ELSE run_loop(loop_body(st, ls[k]), ls, k + 1)

\* lines 69-89: whether the call raises, and the tuple it returns if not
extract_swot_key_points(text) ==
    LET st == run_loop(LoopStart, py_split(text, <<LF>>), 1)
    IN  IF st.failed
        THEN [raises |-> TRUE, strengths |-> <<>>, weaknesses |-> <<>>,
              opportunities |-> <<>>, threats |-> <<>>]
        ELSE [raises |-> FALSE,
              strengths |-> top3(st.strengths),
              weaknesses |-> top3(st.weaknesses),
              opportunities |-> top3(st.opportunities),
              threats |-> top3(st.threats)]

-----------------------------------------------------------------------------
(* The inputs the model draws from *)

NL == <<LF>>
H3 == <<"#","#","#"," ">>
Star == <<"*"," ">>
StrongBrand == <<"S","t","r","o","n","g"," ","b","r","a","n","d">>
HighCosts == <<"H","i","g","h"," ","c","o","s","t","s">>
NewMarkets == <<"N","e","w"," ","m","a","r","k","e","t","s">>
Competition == <<"C","o","m","p","e","t","i","t","i","o","n">>
NotABullet == <<"-"," ","N","o","t"," ","a"," ","b","u","l","l","e","t">>
LowerStrengths == <<"s","t","r","e","n","g","t","h","s">>
MarkerTail == MetadataMarker \o <<"=","{","}">>

\* the lines responses are assembled from
StrengthsHeader == H3 \o StrengthsKw
WeaknessesHeader == WeaknessesKw \o <<":">>
BrandBullet == Star \o StrongBrand
TwoKeywordBullet ==
    <<" ">> \o Star \o ThreatsKw \o <<" ","a","n","d"," ">> \o StrengthsKw \o <<" ">>
LowerCaseBullet == Star \o LowerStrengths
MarkerLine == <<"x"," ">> \o MarkerTail \o <<" ","y">>
EscapedLine ==
    EscapedNewline \o H3 \o OpportunitiesKw \o <<" ">> \o EscapedNewline
    \o Star \o NewMarkets
BlankLine == <<" ">>

LineSet ==
    { StrengthsHeader, WeaknessesHeader, BrandBullet, NotABullet,
      TwoKeywordBullet, LowerCaseBullet, MarkerLine, EscapedLine, BlankLine }

\* "\n".join(ls)
RECURSIVE JoinLines(_)
JoinLines(ls) ==
    IF ls = <<>> THEN <<>>
    ELSE IF Len(ls) = 1 THEN ls[1]
    ELSE ls[1] \o NL \o JoinLines(Tail(ls))

AssembledTexts ==
    { JoinLines(ls) : ls \in UNION { [1..n -> LineSet] : n \in 0..MaxLines } }

\* a header followed by k distinct bullet lines
Digit(i) == <<"0","1","2","3","4","5","6","7","8","9">>[i + 1]
PointLine(i) == Star \o <<"p", Digit(i)>>
BulletRun(hdr, k) == JoinLines(<<H3 \o hdr>> \o [i \in 1..k |-> PointLine(i)])
BulletRuns == { BulletRun(hdr, k) : hdr \in {StrengthsKw, ThreatsKw}, k \in 0..MaxBullets }

\* the example of the specification, section 8
ExampleText ==
    H3 \o StrengthsKw \o NL \o Star \o StrongBrand \o NL
    \o H3 \o WeaknessesKw \o NL \o Star \o HighCosts \o NL
    \o H3 \o OpportunitiesKw \o NL \o Star \o NewMarkets \o NL
    \o H3 \o ThreatsKw \o NL \o Star \o Competition \o NL
\* the same bullet text under two headers
RepeatedBulletText ==
    StrengthsHeader \o NL \o BrandBullet \o NL \o WeaknessesHeader \o NL \o BrandBullet
\* escaped newlines only, also at both ends
EscapedText ==
    EscapedNewline \o H3 \o OpportunitiesKw \o EscapedNewline \o <<"*"," "," ">>
    \o NewMarkets \o <<" ">> \o EscapedNewline \o EscapedNewline \o <<" ">>
\* a backslash before an escaped newline
DoubleBackslashText ==
    H3 \o ThreatsKw \o <<BS>> \o EscapedNewline \o Star \o Competition
\* indentation, a blank line and a numbered line
IndentedText ==
    <<" ","\t">> \o H3 \o WeaknessesKw \o <<" ">> \o NL \o NL
    \o <<"1","."," ","N","u","m","b","e","r","e","d">> \o NL \o Star \o HighCosts \o NL
\* the marker twice, text after each
TwoMarkerText ==
    H3 \o ThreatsKw \o NL \o Star \o Competition \o <<" ">> \o MarkerTail
    \o <<" ">> \o Star \o <<"x"," ">> \o MetadataMarker \o <<" ","y">>
\* escaped newlines and blanks right before the marker
MarkerAfterEscapeText ==
    StrengthsHeader \o EscapedNewline \o <<" ">> \o EscapedNewline \o MarkerTail
    \o EscapedNewline \o BrandBullet
\* the marker's characters split by an escaped newline
BrokenMarkerText ==
    <<"a","d","d","i","t","i","o","n","a","l","_">> \o EscapedNewline
    \o <<"k","w","a","r","g","s">>
\* both kinds of quote in the payload
QuotedText ==
    StrengthsHeader \o NL \o Star \o <<"I","t","'","s"," ","\"","n","e","w","\"">>

\* lines that are neither header nor bullet, between bullets
MixedText ==
    StrengthsHeader \o NL \o BrandBullet \o NL \o NotABullet \o NL \o NL
    \o Star \o HighCosts

SampleTexts ==
    { ExampleText, RepeatedBulletText, EscapedText, DoubleBackslashText,
      IndentedText, TwoMarkerText, MarkerAfterEscapeText, BrokenMarkerText,
      QuotedText, MixedText }

Texts == AssembledTexts \cup BulletRuns \cup SampleTexts

TextKey == <<"t","e","x","t">>

\* every shape of response, around every text
Responses ==
    { Response("str", <<>>, t) : t \in Texts }
    \cup { Response("dict", ContentKey, t) : t \in Texts }
    \cup { Response("dict", TextKey, t) : t \in Texts }
    \cup { Response("AIMessage", ContentKey, t) : t \in Texts }

\* what the user may type into the text area
Inputs == { <<>>, <<"A","c","m","e"," ","C","o","r","p">> }

-----------------------------------------------------------------------------
(* The script run *)

NoLists == [b \in {"strengths", "weaknesses", "opportunities", "threats"} |-> <<>>]

Init ==
    /\ pc = "idle"
    /\ company_details = <<>>
    /\ analysis_result = EmptyStr
    /\ swot_text = <<>>
    /\ displayed = <<>>
    /\ lines = <<>>
    /\ idx = 1
    /\ category = "None"
    /\ strengths = <<>>
    /\ weaknesses = <<>>
    /\ opportunities = <<>>
    /\ threats = <<>>
    /\ key_points = NoLists
    /\ rendered = NoLists
    /\ error = "none"
    /\ requests = <<>>
    /\ service_log = <<>>

\* The user presses "Generate SWOT": Streamlit reruns the script from the top
\* (lines 97-102), st.button returns True and the script reaches line 104.
GenerateSWOT ==
    /\ pc \in {"idle", "done", "failed"}
    /\ Len(requests) < MaxClicks
    /\ \E input \in Inputs :
          /\ company_details' = input
          /\ requests' = Append(requests, input)
    /\ analysis_result' = EmptyStr
    /\ swot_text' = <<>>
    /\ displayed' = <<>>
    /\ lines' = <<>>
    /\ idx' = 1
    /\ category' = "None"
    /\ strengths' = <<>>
    /\ weaknesses' = <<>>
    /\ opportunities' = <<>>
    /\ threats' = <<>>
    /\ key_points' = NoLists
    /\ rendered' = NoLists
    /\ error' = "none"
    /\ pc' = "analyze"
    /\ UNCHANGED service_log

\* a bug: a cache in front of the service, which is not invoked for a
\* context it was invoked with before
analyze_swot_cached ==
    /\ pc = "analyze"
    /\ service_log' =
          IF \E i \in 1..Len(service_log) : service_log[i] = company_details
          THEN service_log
          ELSE Append(service_log, company_details)
    /\ \E r \in Responses : analysis_result' = r
    /\ pc' = "clean"
    /\ UNCHANGED <<company_details, swot_text, displayed, lines, idx, category,
                   strengths, weaknesses, opportunities, threats, key_points,
                   rendered, error, requests>>

\* lines 50-51 and 104: swot_chain.invoke, which returns a response
analyze_swot ==
    /\ pc = "analyze"
    /\ service_log' = Append(service_log, company_details)
    /\ \E r \in Responses : analysis_result' = r
    /\ pc' = "clean"
    /\ UNCHANGED <<company_details, swot_text, displayed, lines, idx, category,
                   strengths, weaknesses, opportunities, threats, key_points,
                   rendered, error, requests>>

\* lines 50-51 and 104: swot_chain.invoke raises; nothing catches it and the
\* script run ends
analyze_swot_raises ==
    /\ pc = "analyze"
    /\ service_log' = Append(service_log, company_details)
    /\ error' = "ServiceError"
    /\ pc' = "failed"
    /\ UNCHANGED <<company_details, analysis_result, swot_text, displayed, lines,
                   idx, category, strengths, weaknesses, opportunities, threats,
                   key_points, rendered, requests>>

\* lines 107-111 and 71-74: clean the response, display it, enter
\* extract_swot_key_points and split the text into lines
CleanAndDisplay ==
    /\ pc = "clean"
    /\ swot_text' = clean_swot_text(analysis_result)
    /\ displayed' = swot_text'
    /\ lines' = py_split(swot_text', NL)
    /\ idx' = 1
    /\ category' = "None"
    /\ strengths' = <<>>
    /\ weaknesses' = <<>>
    /\ opportunities' = <<>>
    /\ threats' = <<>>
    /\ pc' = "loop"
    /\ UNCHANGED <<company_details, analysis_result, key_points, rendered, error,
                   requests, service_log>>

\* lines 75-86: one iteration of the for loop on the locals of the call
LoopStep ==
    /\ pc = "loop"
    /\ idx <= Len(lines)
    /\ LET st == loop_body(LoopState(category, strengths, weaknesses,
                                     opportunities, threats, FALSE), lines[idx])
       IN  /\ category' = st.category
           /\ strengths' = st.strengths
           /\ weaknesses' = st.weaknesses
           /\ opportunities' = st.opportunities
           /\ threats' = st.threats
           /\ IF st.failed
              THEN \* the AttributeError ends the script run
                   /\ error' = "AttributeError"
                   /\ pc' = "failed"
                   /\ idx' = idx
              ELSE /\ idx' = idx + 1
                   /\ UNCHANGED <<pc, error>>
    /\ UNCHANGED <<company_details, analysis_result, swot_text, displayed, lines,
                   key_points, rendered, requests, service_log>>

\* lines 89 and 114: the loop is over, the four slices are returned
Return ==
    /\ pc = "loop"
    /\ idx > Len(lines)
    /\ key_points' = [strengths |-> top3(strengths),
                      weaknesses |-> top3(weaknesses),
                      opportunities |-> top3(opportunities),
                      threats |-> top3(threats)]
    /\ pc' = "render"
    /\ UNCHANGED <<company_details, analysis_result, swot_text, displayed, lines,
                   idx, category, strengths, weaknesses, opportunities, threats,
                   rendered, error, requests, service_log>>

\* "- No <Category> Identified"
Placeholder(b) ==
    <<"-"," ","N","o"," ">>
    \o (IF b = "strengths" THEN StrengthsKw
        ELSE IF b = "weaknesses" THEN WeaknessesKw
        ELSE IF b = "opportunities" THEN OpportunitiesKw
        ELSE ThreatsKw)
    \o <<" ","I","d","e","n","t","i","f","i","e","d">>

\* lines 117-163: the 2x2 grid (the token counts of the side bar are left
\* to the tokenizer and not modelled)
Render ==
    /\ pc = "render"
    /\ rendered' =
          [b \in DOMAIN key_points |->
              IF key_points[b] = <<>> THEN <<Placeholder(b)>>
              ELSE [i \in 1..Len(key_points[b]) |-> <<"-"," ">> \o key_points[b][i]]]
    /\ pc' = "done"
    /\ UNCHANGED <<company_details, analysis_result, swot_text, displayed, lines,
                   idx, category, strengths, weaknesses, opportunities, threats,
                   key_points, error, requests, service_log>>

Next ==
    \/ GenerateSWOT
    \/ analyze_swot
    \/ analyze_swot_raises
    \/ CleanAndDisplay
    \/ LoopStep
    \/ Return
    \/ Render

Spec == Init /\ [][Next]_vars

\* One script run taken alone: the state GenerateSWOT leaves when it is the
\* first action, and the steps of the run up to its end. Every run starts
\* from the same blank names (lines 97-100), so what a run cleans, parses and
\* renders depends on no earlier run.
InitRun ==
    /\ pc = "analyze"
    /\ \E input \in Inputs :
          /\ company_details = input
          /\ requests = <<input>>
    /\ analysis_result = EmptyStr
    /\ swot_text = <<>>
    /\ displayed = <<>>
    /\ lines = <<>>
    /\ idx = 1
    /\ category = "None"
    /\ strengths = <<>>
    /\ weaknesses = <<>>
    /\ opportunities = <<>>
    /\ threats = <<>>
    /\ key_points = NoLists
    /\ rendered = NoLists
    /\ error = "none"
    /\ service_log = <<>>

NextRun ==
    \/ analyze_swot
    \/ analyze_swot_raises
    \/ CleanAndDisplay
    \/ LoopStep
    \/ Return
    \/ Render

SpecRun == InitRun /\ [][NextRun]_vars

-----------------------------------------------------------------------------
(* Vocabulary of the properties, stated on the lines the parser was given *)

\* extract_swot_key_points has returned
Returned == pc \in {"render", "done"}
\* clean_swot_text has returned
Cleaned == pc \in {"loop", "render", "done"} \/ error = "AttributeError"

Keywords == <<StrengthsKw, WeaknessesKw, OpportunitiesKw, ThreatsKw>>

Occurs(sub, s) == \E i \in 1..Len(s) : MatchAt(s, sub, i)

\* the i-th line after trimming
Trimmed(i) == py_strip(lines[i])

IsHeaderLine(l) == \E k \in 1..4 : Occurs(Keywords[k], l)
StartsWithStar(l) == l # <<>> /\ l[1] = "*"
IsBulletLine(l) == ~IsHeaderLine(l) /\ StartsWithStar(l)
IsOtherLine(l) == ~IsHeaderLine(l) /\ ~StartsWithStar(l)

\* the bucket a header line names: its first keyword in the order
\* Strengths, Weaknesses, Opportunities, Threats
NamedBucket(l) ==
    Buckets[CHOOSE k \in 1..4 :
               /\ Occurs(Keywords[k], l)
               /\ \A j \in 1..(k - 1) : ~Occurs(Keywords[j], l)]

\* the bucket in force at line i: the one named by the last header before it
BucketAt(i) ==
    LET hs == { j \in 1..(i - 1) : IsHeaderLine(Trimmed(j)) }
    IN  IF hs = {} THEN "None"
        ELSE NamedBucket(Trimmed(CHOOSE j \in hs : \A k \in hs : k <= j))

\* the bullet lines of bucket b among the first n lines
BulletLinesOf(b, n) ==
    { i \in 1..n : IsBulletLine(Trimmed(i)) /\ BucketAt(i) = b }

\* the k-th smallest element of a set of numbers
Nth(S, k) == CHOOSE x \in S : Cardinality({ y \in S : y < x }) = k - 1

\* a bullet line without its marker and the blanks around the rest
Unmarked(l) == py_strip(Tail(l))

\* the entries bucket b is to hold after the first n lines, in input order
ExpectedEntries(b, n) ==
    LET found == BulletLinesOf(b, n)
    IN  [k \in 1..Cardinality(found) |-> Unmarked(Trimmed(Nth(found, k)))]

IsPrefixOf(p, s) == Len(p) <= Len(s) /\ \A i \in 1..Len(p) : p[i] = s[i]

FullList(b) ==
    IF b = "strengths" THEN strengths
    ELSE IF b = "weaknesses" THEN weaknesses
    ELSE IF b = "opportunities" THEN opportunities
    ELSE threats

BucketNames == {"strengths", "weaknesses", "opportunities", "threats"}

Range(s) == { s[i] : i \in 1..Len(s) }

-----------------------------------------------------------------------------
(* The stepwise loop and the function agree: a check of the model itself *)

StepwiseAgrees ==
    /\ Returned =>
          LET r == extract_swot_key_points(swot_text)
          IN  /\ ~r.raises
              /\ \A b \in BucketNames : key_points[b] = r[b]
    /\ error = "AttributeError" => extract_swot_key_points(swot_text).raises

-----------------------------------------------------------------------------
(* C1 *)

ExampleResponse == Response("str", <<>>, ExampleText)

\* C1: whenever extract_swot_key_points returns, every bucket holds, in input
\* order, marker-stripped and trimmed texts of '*'-prefixed lines whose most
\* recently preceding header line names that bucket (the bucket is a prefix of
\* the sequence of all such lines); and the example text of the specification
\* is parsed without failure into Strengths = [Strong brand], Weaknesses =
\* [High costs], Opportunities = [New markets], Threats = [Competition].
C1_EntriesFollowHeaders ==
    /\ Returned =>
          \A b \in BucketNames :
              IsPrefixOf(key_points[b], ExpectedEntries(b, Len(lines)))
    /\ analysis_result = ExampleResponse =>
          /\ error = "none"
          /\ Returned =>
                key_points = [strengths |-> <<StrongBrand>>,
                              weaknesses |-> <<HighCosts>>,
                              opportunities |-> <<NewMarkets>>,
                              threats |-> <<Competition>>]

\* the example text has been parsed and rendered
C1_Witness ==
    /\ pc = "done"
    /\ analysis_result = ExampleResponse
    /\ key_points["threats"] = <<Competition>>
    /\ Len(lines) = 8

-----------------------------------------------------------------------------
(* C7 *)

\* C7: an iteration of the loop on a line that, trimmed, holds no section
\* keyword and does not start with '*' leaves the four lists and the current
\* category as they were and goes on to the next line.
C7_OtherLineDiscarded ==
    [][(pc = "loop" /\ idx <= Len(lines) /\ IsOtherLine(Trimmed(idx)))
         => /\ UNCHANGED <<category, strengths, weaknesses, opportunities, threats>>
            /\ pc' = "loop"
            /\ error' = error
            /\ idx' = idx + 1]_vars

\* "- Not a bullet" was met after a bullet had been filed, and the parser
\* went on to file another bullet
C7_Witness ==
    /\ pc = "done"
    /\ \E i \in 2..(Len(lines) - 1) :
          /\ Trimmed(i) = NotABullet
          /\ IsBulletLine(Trimmed(i - 1))
    /\ strengths = <<StrongBrand, HighCosts>>

-----------------------------------------------------------------------------
(* C8 *)

Min(a, b) == IF a < b THEN a ELSE b

\* C8: each returned sequence has at most three entries and is exactly the
\* first three (or all, if fewer) entries, in order, of the full list of the
\* bullets filed into that bucket; a bucket no bullet line was filed into,
\* such as one whose header is followed by no bullet line, is returned empty.
C8_TopThree ==
    Returned =>
        \A b \in BucketNames :
            /\ Len(key_points[b]) <= 3
            /\ Len(key_points[b]) = Min(3, Len(FullList(b)))
            /\ \A i \in 1..Len(key_points[b]) : key_points[b][i] = FullList(b)[i]
            /\ BulletLinesOf(b, Len(lines)) = {} => key_points[b] = <<>>

\* four bullets were filed under Strengths, three were returned, and the
\* Threats bucket is empty
C8_Witness ==
    /\ Returned
    /\ Len(strengths) > 3
    /\ Len(key_points["strengths"]) = 3
    /\ key_points["threats"] = <<>>

-----------------------------------------------------------------------------
(* C10 *)

\* C10: an iteration on a line holding one of the exact-case keywords binds
\* the category to the first keyword found in the order Strengths, Weaknesses,
\* Opportunities, Threats and appends nothing, also when the line starts with
\* '*'; an iteration on any other line (one holding a keyword in another
\* casing, say) leaves the category as it was.
C10_HeaderMatching ==
    [][(pc = "loop" /\ idx <= Len(lines))
         => /\ IsHeaderLine(Trimmed(idx)) =>
                  /\ category' = NamedBucket(Trimmed(idx))
                  /\ UNCHANGED <<strengths, weaknesses, opportunities, threats>>
            /\ ~IsHeaderLine(Trimmed(idx)) => category' = category]_vars

\* "* Threats and Strengths" selected Strengths and was not filed;
\* "* strengths" was filed under it and selected nothing
C10_Witness ==
    /\ pc = "done"
    /\ Len(lines) = 2
    /\ Trimmed(1) = py_strip(TwoKeywordBullet)
    /\ Trimmed(2) = LowerCaseBullet
    /\ category = "strengths"
    /\ strengths = <<LowerStrengths>>
    /\ threats = <<>>

-----------------------------------------------------------------------------
(* C2 *)

\* C2: a bullet line met before any section header is guarded against:
\* extract_swot_key_points never fails, so no script run ends in the
\* AttributeError of an append to the unset category, and a response with no
\* header line is parsed to the end into four empty buckets.
C2_BulletBeforeHeaderGuarded ==
    /\ error # "AttributeError"
    /\ (pc = "done" /\ \A i \in 1..Len(lines) : ~IsHeaderLine(Trimmed(i)))
          => key_points = NoLists

-----------------------------------------------------------------------------
(* C3 *)

\* the response exposes a textual payload field named content
ExposesContent(raw) == raw.kind \in {"dict", "AIMessage"} /\ raw.key = ContentKey

\* C3: once clean_swot_text has returned, the cleaned text is the cleaning of
\* the content field alone whenever the response exposes one (a mapping with
\* 'content', an object with a content attribute), and the cleaning of the
\* textual representation of the whole response only when it exposes none.
C3_PayloadFieldUsed ==
    Cleaned =>
        swot_text = IF ExposesContent(analysis_result)
                    THEN clean_str(analysis_result.text)
                    ELSE clean_str(py_str(analysis_result))

-----------------------------------------------------------------------------
(* C4 *)

\* C4 as stated: no entry string is in two different returned buckets.
C4_NoStringInTwoBuckets ==
    Returned =>
        \A b1, b2 \in BucketNames :
            b1 # b2 => Range(key_points[b1]) \cap Range(key_points[b2]) = {}

\* C4, amended: no line is filed into two buckets. While the loop runs and
\* after it, the four lists together hold exactly one entry per bullet line
\* processed, each list holding the entries of the bullet lines whose latest
\* header names it; so a string is in two buckets only if two different
\* bullet lines, under different headers, carry it.
C4_NoLineInTwoBuckets ==
    pc \in {"loop", "render", "done"} =>
        /\ \A b \in BucketNames :
              Len(FullList(b)) = Cardinality(BulletLinesOf(b, idx - 1))
        /\ \A b1, b2 \in BucketNames :
              \A e \in Range(FullList(b1)) \cap Range(FullList(b2)) :
                  b1 # b2 =>
                      \E i \in BulletLinesOf(b1, idx - 1), j \in BulletLinesOf(b2, idx - 1) :
                          /\ i # j
                          /\ Unmarked(Trimmed(i)) = e
                          /\ Unmarked(Trimmed(j)) = e

\* "Strong brand" was a bullet under Strengths and again under Weaknesses
C4_Witness ==
    /\ Returned
    /\ key_points["strengths"] = <<StrongBrand>>
    /\ key_points["weaknesses"] = <<StrongBrand>>
    /\ Len(lines) = 4

-----------------------------------------------------------------------------
(* C5 *)

\* what precedes the first occurrence of the marker in t
BeforeMarker(t) ==
    SubSeq(t, 1, (CHOOSE i \in 1..Len(t) :
                     /\ MatchAt(t, MetadataMarker, i)
                     /\ \A j \in 1..(i - 1) : ~MatchAt(t, MetadataMarker, j)) - 1)

\* C5: when the text of the raw response holds the marker additional_kwargs,
\* the text clean_swot_text returns holds no marker, it is the part before the
\* first occurrence with the escaped newlines replaced and the outer
\* whitespace trimmed, and it is both the text displayed and the text whose
\* lines are parsed.
C5_MetadataTruncated ==
    (Cleaned /\ Occurs(MetadataMarker, select_text(analysis_result))) =>
        /\ ~Occurs(MetadataMarker, swot_text)
        /\ swot_text =
              py_strip(py_replace(BeforeMarker(select_text(analysis_result)),
                                  EscapedNewline, <<LF>>))
        /\ displayed = swot_text
        /\ JoinLines(lines) = swot_text

\* a plain response with the marker twice was cut at the first one
C5_Witness ==
    /\ Returned
    /\ analysis_result = Response("str", <<>>, TwoMarkerText)
    /\ swot_text = H3 \o ThreatsKw \o NL \o Star \o Competition
    /\ key_points["threats"] = <<Competition>>

-----------------------------------------------------------------------------
(* C6 *)

\* C6: cleaning a cleaned text gives the same text, and parsing the re-cleaned
\* text gives what parsing the once-cleaned text gives (the same four buckets,
\* or the same failure).
C6_CleaningIdempotent ==
    Cleaned =>
        LET again == clean_swot_text(Response("str", <<>>, swot_text))
        IN  /\ again = swot_text
            /\ extract_swot_key_points(again) = extract_swot_key_points(swot_text)

\* a text with escaped newlines and blanks at both ends was cleaned to
\* something else than itself and parsed
C6_Witness ==
    /\ Returned
    /\ analysis_result = Response("str", <<>>, EscapedText)
    /\ swot_text # EscapedText
    /\ swot_text = H3 \o OpportunitiesKw \o NL \o <<"*"," "," ">> \o NewMarkets
    /\ key_points["opportunities"] = <<NewMarkets>>

-----------------------------------------------------------------------------
(* C9 *)

\* C9: the service is invoked once per "Generate SWOT" action and never
\* without one: while a request waits for the service nothing of it is
\* cleaned, parsed or rendered and the service has been invoked once for each
\* earlier action; from the call on, it has been invoked once for each action
\* so far, in order, with that action's input, an input seen before included.
C9_OneCallPerAction ==
    /\ pc = "analyze" =>
          /\ service_log = SubSeq(requests, 1, Len(requests) - 1)
          /\ requests[Len(requests)] = company_details
          /\ swot_text = <<>> /\ displayed = <<>> /\ lines = <<>>
          /\ key_points = NoLists /\ rendered = NoLists
    /\ pc # "analyze" => service_log = requests
    /\ Cleaned \/ Returned => service_log[Len(service_log)] = company_details

\* the same input was submitted twice and the service invoked twice
C9_Witness ==
    /\ pc = "done"
    /\ Len(requests) = 2
    /\ requests[1] = requests[2]
    /\ service_log = requests

====
